---- MODULE Spec2Model ----
(***************************************************************************)
(* Model of dotfiles/repository.py: the Repository class.                  *)
(*                                                                         *)
(* A string is a sequence of character codes, a path (py.path.local) is    *)
(* the sequence of its segments below "/", always normalised.  The         *)
(* filesystem is the pair (dirs, files) of sets of paths.                  *)
(***************************************************************************)
EXTENDS Integers, Sequences, FiniteSets, TLC

VARIABLES homedir, repodir, dot, ignore, dirs, files, op, arg, ret, hist,
          stack, echoed

vars == <<homedir, repodir, dot, ignore, dirs, files, op, arg, ret, hist,
          stack, echoed>>

config == <<homedir, repodir, dot, ignore>>

----------------------------------------------------------------------------
(* Bounds of the model.                                                    *)

MaxSegLen == 2
MaxDepth == 2
MaxCalls == 2
TreeDepth == 2
MaxNodes == 4
MaxHomeNodes == 2
MaxPaths == 2

----------------------------------------------------------------------------
(* Characters and strings.                                                 *)

Dot == 46
Sep == 47

Alphabet == {Dot, 97}

Pardir == <<Dot, Dot>>
Curdir == <<Dot>>

SeqsUpTo(S, n) == UNION {[1..k -> S] : k \in 1..n}

\* str[1:]
SliceFrom1(s) == IF s = <<>> THEN <<>> ELSE Tail(s)

RECURSIVE JoinSep(_)
\* sep.join(segs)
JoinSep(segs) ==
    IF segs = <<>> THEN <<>>
    ELSE IF Len(segs) = 1 THEN Head(segs)
    ELSE Head(segs) \o <<Sep>> \o JoinSep(Tail(segs))

RECURSIVE SplitSep(_, _)
\* s.split(sep), with cur the segment being read
SplitSep(s, cur) ==
    IF s = <<>> THEN <<cur>>
    ELSE IF Head(s) = Sep THEN <<cur>> \o SplitSep(Tail(s), <<>>)
    ELSE SplitSep(Tail(s), Append(cur, Head(s)))

RECURSIVE NormInto(_, _)
\* os.path.normpath of an absolute path: base is already normal, segs follow
NormInto(base, segs) ==
    IF segs = <<>> THEN base
    ELSE LET s == Head(segs) IN
         IF s = <<>> \/ s = Curdir THEN NormInto(base, Tail(segs))
         ELSE IF s = Pardir
              THEN NormInto(IF base = <<>> THEN <<>>
                            ELSE SubSeq(base, 1, Len(base) - 1), Tail(segs))
              ELSE NormInto(Append(base, s), Tail(segs))

\* str(path)
PathStr(p) == IF p = <<>> THEN <<Sep>> ELSE <<Sep>> \o JoinSep(p)

\* py.path.local.join(arg): normpath(os.path.join(strpath, arg.strip(sep)))
Join(p, s) == NormInto(p, SplitSep(s, <<>>))

RECURSIVE CommonLen(_, _)
\* number of leading segments two paths share (py.path common())
CommonLen(p, q) ==
    IF p = <<>> \/ q = <<>> \/ Head(p) # Head(q) THEN 0
    ELSE 1 + CommonLen(Tail(p), Tail(q))

\* py.path.local.bestrelpath(dest)
bestrelpath(self, dest) ==
    IF self = dest THEN Curdir
    ELSE LET k == CommonLen(self, dest)
             n == Len(self) - k
             reldest == SubSeq(dest, k + 1, Len(dest))
         IN JoinSep([i \in 1..n |-> Pardir] \o reldest)

IsPrefix(s, t) == Len(s) <= Len(t) /\ SubSeq(t, 1, Len(s)) = s

\* path.fnmatch('%s/*' % dir): the pattern holds a separator, so it is
\* matched against str(path), and '*' matches any run of characters
fnmatchBelow(path, dir) == IsPrefix(PathStr(dir) \o <<Sep>>, PathStr(path))

basename(p) == IF p = <<>> THEN <<>> ELSE p[Len(p)]

----------------------------------------------------------------------------
(* Repository._target_to_name and Repository._name_to_target               *)

target_to_name_nodot(target) ==
    Join(homedir, bestrelpath(repodir, target))

_target_to_name(target) ==
    LET relpath == bestrelpath(repodir, target) IN
    IF dot THEN Join(homedir, relpath)
    ELSE Join(homedir, <<Dot>> \o relpath)

_name_to_target(name) ==
    LET relpath == bestrelpath(homedir, name) IN
    IF dot THEN Join(repodir, relpath)
    ELSE Join(repodir, SliceFrom1(relpath))

----------------------------------------------------------------------------
(* Inputs.                                                                  *)

Home == << <<104>> >>
RepoInHome == << <<104>>, <<Dot, 97>> >>
RepoOutside == << <<114>> >>

Segments == SeqsUpTo(Alphabet, MaxSegLen) \ {Curdir, Pardir}
RelPaths == SeqsUpTo(Segments, MaxDepth)

IsBelow(p, d) == Len(p) > Len(d) /\ SubSeq(p, 1, Len(d)) = d

----------------------------------------------------------------------------
(* Path mapping: the two transforms applied in sequence to an input path.   *)

InitMap ==
    /\ homedir = Home
    /\ repodir \in {RepoInHome, RepoOutside}
    /\ dot \in BOOLEAN
    /\ ignore = {}
    /\ dirs = {<<>>, Home, repodir}
    /\ files = {}
    /\ op = "init"
    /\ arg \in {repodir \o p : p \in RelPaths} \cup {Home \o p : p \in RelPaths}
    /\ ret = arg
    /\ hist = <<>>
    /\ stack = <<>>
    /\ echoed = <<>>

TargetToName ==
    /\ Len(hist) < MaxCalls
    /\ ret' = _target_to_name(ret)
    /\ hist' = Append(hist, "target_to_name")
    /\ op' = "target_to_name"
    /\ UNCHANGED <<config, dirs, files, arg, stack, echoed>>

NameToTarget ==
    /\ Len(hist) < MaxCalls
    /\ ret' = _name_to_target(ret)
    /\ hist' = Append(hist, "name_to_target")
    /\ op' = "name_to_target"
    /\ UNCHANGED <<config, dirs, files, arg, stack, echoed>>

NextMap == TargetToName \/ NameToTarget

SpecMap == InitMap /\ [][NextMap]_vars

----------------------------------------------------------------------------
\* C1: for every target t below the repository root and both values of the
\* dot flag, _name_to_target(_target_to_name(t)) = t.
RoundTripFromRepo ==
    (hist = <<"target_to_name", "name_to_target">> /\ IsBelow(arg, repodir))
        => ret = arg

RoundTripFromRepoWitness ==
    /\ hist = <<"target_to_name", "name_to_target">>
    /\ IsBelow(arg, repodir)
    /\ ~dot
    /\ Len(arg) > Len(repodir) + 1
    /\ ret = arg

\* C2: for every path h below the home root and both values of the dot
\* flag, _target_to_name(_name_to_target(h)) = h, and no other path below
\* the home root maps to the repository path of h.
RoundTripFromHome ==
    /\ (hist = <<"name_to_target", "target_to_name">> /\ IsBelow(arg, homedir))
          => ret = arg
    /\ (hist = <<"name_to_target">> /\ IsBelow(arg, homedir))
          => \A p \in RelPaths :
                (homedir \o p) # arg => _name_to_target(homedir \o p) # ret

----------------------------------------------------------------------------
(* The filesystem.                                                          *)

Names == {<<97>>, <<Dot, 97>>}

parent(p) == SubSeq(p, 1, Len(p) - 1)

Below(d, nodes) == {p \in nodes : IsBelow(p, d)}

Children(d, nodes) == {p \in nodes : Len(p) = Len(d) + 1 /\ IsBelow(p, d)}

\* the directories that exist whatever the tree: "/", the home directory,
\* the repository directory (ensure_dir) and their ancestors
BaseOf(home, repo) ==
    {SubSeq(home, 1, k) : k \in 0..Len(home)} \cup
    {SubSeq(repo, 1, k) : k \in 0..Len(repo)}

TreePaths(root) == {root \o p : p \in SeqsUpTo(Names, TreeDepth)}

RECURSIVE NodeSets(_, _, _)
\* the sets of at most n paths of cand that hold the parent of each member
\* that is not the child of a root
NodeSets(roots, cand, n) ==
    IF n = 0 THEN {{}}
    ELSE LET smaller == NodeSets(roots, cand, n - 1) IN
         smaller \cup
         {T \cup {x} : <<T, x>> \in
             {tx \in smaller \X cand :
                 /\ tx[2] \notin tx[1]
                 /\ parent(tx[2]) \in tx[1] \cup roots}}

Leaves(T) == {p \in T : Children(p, T) = {}}

Nodes == dirs \cup files

Ranks == {f \in [Names -> 1..Cardinality(Names)] :
            \A x, y \in DOMAIN f : x # y => f[x] # f[y]}

RECURSIVE SortByRank(_, _)
SortByRank(S, rank) ==
    IF S = {} THEN <<>>
    ELSE LET first == CHOOSE p \in S :
                        \A q \in S : rank[basename(p)] <= rank[basename(q)]
         IN <<first>> \o SortByRank(S \ {first}, rank)

\* path.listdir(): the entries of a directory, in the order the operating
\* system lists them (rank)
listdir(d, rank) == SortByRank(Children(d, Nodes), rank)

\* path.check(dir=1)
IsDir(p) == p \in dirs

----------------------------------------------------------------------------
(* path.visit(filter, recurse): a generator.  Its state is a stack of        *)
(* frames, one per directory being walked; a frame holds the entries that   *)
(* listdir returned when the directory was entered, the entries to recurse  *)
(* into, and the position in one list or the other.                         *)

\* the recurse predicate of _contents and of prune
recurse(node) == basename(node) \notin ignore

\* the filter of _contents
ContentsFilterAny(node) == basename(node) \notin ignore

ContentsFilter(node) == ~IsDir(node) /\ basename(node) \notin ignore

\* the filter of prune
PruneFilterAnyName(node) == IsDir(node)

PruneFilter(node) == IsDir(node) /\ basename(node) \notin ignore

Fil(mode, node) ==
    IF mode = "files" THEN ContentsFilter(node) ELSE PruneFilter(node)

\* visit(bf=False): the subdirectories are walked before the entries of
\* the directory are yielded
PhaseOrderBreadthFirst == <<"ent", "sub">>

PhaseOrder == <<"sub", "ent">>

NewFrame(path, rank) ==
    LET entries == listdir(path, rank)
        Rec(p) == IsDir(p) /\ recurse(p)
    IN [path |-> path, entries |-> entries,
        subdirs |-> SelectSeq(entries, Rec), ph |-> 1, i |-> 1]

RECURSIVE GenNext(_, _, _)
\* next(generator): the frames after the step and the path yielded, <<>>
\* when the generator is exhausted
GenNext(stk, mode, rank) ==
    IF stk = <<>> THEN [stack |-> <<>>, item |-> <<>>]
    ELSE LET n == Len(stk)
             top == stk[n]
             phase == PhaseOrder[top.ph]
             list == IF phase = "sub" THEN top.subdirs ELSE top.entries
         IN IF top.i > Len(list)
            THEN IF top.ph = Len(PhaseOrder)
                 THEN GenNext(SubSeq(stk, 1, n - 1), mode, rank)
                 ELSE GenNext([stk EXCEPT ![n].ph = @ + 1, ![n].i = 1],
                              mode, rank)
            ELSE LET p == list[top.i]
                     adv == [stk EXCEPT ![n].i = @ + 1]
                 IN IF phase = "sub"
                    THEN GenNext(Append(adv, NewFrame(p, rank)), mode, rank)
                    ELSE IF Fil(mode, p)
                         THEN [stack |-> adv, item |-> <<p>>]
                         ELSE GenNext(adv, mode, rank)

RECURSIVE Drain(_, _, _, _)
\* list(generator)
Drain(stk, mode, rank, acc) ==
    LET r == GenNext(stk, mode, rank) IN
    IF r.item = <<>> THEN acc
    ELSE Drain(r.stack, mode, rank, acc \o r.item)

\* Repository._contents(dir)
_contents(dir, rank) == Drain(<<NewFrame(dir, rank)>>, "files", rank, <<>>)

----------------------------------------------------------------------------
(* Repository._dotfile                                                      *)

Dotfile(name, target) == [name |-> name, target |-> target]

Raise(exc, name) == [raised |-> exc, value |-> name]

Return(value) == [raised |-> "none", value |-> value]

dotfile_name_ignored(name) ==
    LET target == _name_to_target(name) IN
    IF ~fnmatchBelow(name, homedir) THEN Raise("NotRootedInHome", name)
    ELSE IF fnmatchBelow(name, repodir) THEN Raise("InRepository", name)
    ELSE IF basename(name) \in ignore THEN Raise("TargetIgnored", name)
    ELSE IF IsDir(name) THEN Raise("IsDirectory", name)
    ELSE Return(Dotfile(name, target))

dotfile_repo_first(name) ==
    LET target == _name_to_target(name) IN
    IF fnmatchBelow(name, repodir) THEN Raise("InRepository", name)
    ELSE IF ~fnmatchBelow(name, homedir) THEN Raise("NotRootedInHome", name)
    ELSE IF basename(target) \in ignore THEN Raise("TargetIgnored", name)
    ELSE IF IsDir(name) THEN Raise("IsDirectory", name)
    ELSE Return(Dotfile(name, target))

_dotfile(name) ==
    LET target == _name_to_target(name) IN
    IF ~fnmatchBelow(name, homedir) THEN Raise("NotRootedInHome", name)
    ELSE IF fnmatchBelow(name, repodir) THEN Raise("InRepository", name)
    ELSE IF basename(target) \in ignore THEN Raise("TargetIgnored", name)
    ELSE IF IsDir(name) THEN Raise("IsDirectory", name)
    ELSE Return(Dotfile(name, target))

----------------------------------------------------------------------------
(* Repository.dotfiles                                                      *)

RECURSIVE RemoveFirst(_, _)
\* list.remove(x)
RemoveFirst(s, x) ==
    IF s = <<>> THEN <<>>
    ELSE IF Head(s) = x THEN Tail(s)
    ELSE <<Head(s)>> \o RemoveFirst(Tail(s), x)

RECURSIVE Expand(_, _, _)
\* for path in paths: ... -- the loop reads paths[i] for i = 1, 2, ... while
\* its body lengthens and shortens the list
Expand(paths, i, rank) ==
    IF i > Len(paths) THEN paths
    ELSE LET path == paths[i] IN
         IF IsDir(path)
         THEN Expand(RemoveFirst(paths \o _contents(path, rank), path),
                     i + 1, rank)
         ELSE Expand(paths, i + 1, rank)

\* map(construct, paths)
Constructed(paths) == [i \in 1..Len(paths) |-> _dotfile(paths[i])]

IsOk(r) == r.raised = "none"
IsErr(r) == r.raised # "none"

\* [d for d in map(construct, paths) if d is not None]
Returned(results) ==
    LET ok == SelectSeq(results, IsOk) IN [i \in 1..Len(ok) |-> ok[i].value]

\* the orders in which list(set(paths)) may hold the paths of a set
Orders(S) == {s \in [1..Cardinality(S) -> S] :
                \A i, j \in DOMAIN s : i # j => s[i] # s[j]}

----------------------------------------------------------------------------
(* Repository.contents                                                      *)

RECURSIVE StrLess(_, _)
\* s < t for strings
StrLess(s, t) ==
    IF t = <<>> THEN FALSE
    ELSE IF s = <<>> THEN TRUE
    ELSE IF Head(s) # Head(t) THEN Head(s) < Head(t)
    ELSE StrLess(Tail(s), Tail(t))

\* py.path.local.__lt__
PathLess(p, q) == StrLess(PathStr(p), PathStr(q))

RECURSIVE Insert(_, _)
Insert(sorted, d) ==
    IF sorted = <<>> THEN <<d>>
    ELSE IF PathLess(d.name, Head(sorted).name) THEN <<d>> \o sorted
    ELSE <<Head(sorted)>> \o Insert(Tail(sorted), d)

Unsorted(ds) == ds

RECURSIVE SortedByName(_)
\* sorted(ds, key=attrgetter('name')), a stable sort
SortedByName(ds) ==
    IF ds = <<>> THEN <<>>
    ELSE Insert(SortedByName(SubSeq(ds, 1, Len(ds) - 1)), ds[Len(ds)])

Construct(target) == Dotfile(_target_to_name(target), target)

\* map(construct, contents)
ConstructAll(targets) == [i \in 1..Len(targets) |-> Construct(targets[i])]

contents(rank) == SortedByName(ConstructAll(_contents(repodir, rank)))

----------------------------------------------------------------------------
(* Validation and bulk resolution of home-side paths.                       *)

IgnoreSets == {{}, {<<97>>}, {<<Dot, 97>>}}

InitHome ==
    /\ homedir = Home
    /\ repodir \in {RepoInHome, RepoOutside}
    /\ dot \in BOOLEAN
    /\ ignore \in IgnoreSets
    /\ \E T \in NodeSets({homedir, repodir},
                          (TreePaths(homedir) \cup TreePaths(repodir))
                              \ {repodir}, MaxHomeNodes) :
          \E F \in SUBSET Leaves(T) :
             /\ files = F
             /\ dirs = BaseOf(homedir, repodir) \cup (T \ F)
    /\ op = "init"
    /\ arg = <<>>
    /\ ret = <<>>
    /\ hist = <<>>
    /\ stack = <<>>
    /\ echoed = <<>>

ValidateInputs ==
    TreePaths(homedir) \cup TreePaths(repodir) \cup TreePaths(<<>>)
        \cup {homedir, repodir}

Validate ==
    \E name \in ValidateInputs :
       /\ op = "init"
       /\ arg' = name
       /\ ret' = _dotfile(name)
       /\ op' = "_dotfile"
       /\ UNCHANGED <<config, dirs, files, hist, stack, echoed>>

Dotfiles ==
    \E S \in SUBSET (Nodes \ {<<>>}) :
       /\ op = "init"
       /\ S # {}
       /\ Cardinality(S) <= MaxPaths
       /\ \E paths \in Orders(S) : \E rank \in Ranks :
             LET results == Constructed(Expand(paths, 1, rank)) IN
             /\ arg' = paths
             /\ ret' = Returned(results)
             /\ echoed' = SelectSeq(results, IsErr)
             /\ op' = "dotfiles"
       /\ UNCHANGED <<config, dirs, files, hist, stack>>

NextHome == Validate \/ Dotfiles

SpecHome == InitHome /\ [][NextHome]_vars

----------------------------------------------------------------------------
(* Enumeration and pruning of the repository.                               *)

InitRepo ==
    /\ homedir = Home
    /\ repodir \in {RepoInHome, RepoOutside}
    /\ dot \in BOOLEAN
    /\ ignore \in IgnoreSets
    /\ \E T \in NodeSets({repodir}, TreePaths(repodir), MaxNodes) :
          \E F \in SUBSET Leaves(T) :
             /\ files = F
             /\ dirs = BaseOf(homedir, repodir) \cup (T \ F)
    /\ op = "init"
    /\ arg = <<>>
    /\ ret = <<>>
    /\ hist = <<>>
    /\ stack = <<>>
    /\ echoed = <<>>

Contents ==
    /\ op \in {"init", "pruned"}
    /\ \E rank \in Ranks :
          /\ arg' = _contents(repodir, rank)
          /\ ret' = contents(rank)
    /\ op' = "contents"
    /\ UNCHANGED <<config, dirs, files, hist, stack, echoed>>

\* prune is entered: the generator is created, nothing is walked yet
PruneBegin ==
    /\ op # "prune"
    /\ Len(hist) < MaxCalls
    /\ \E rank \in Ranks : stack' = <<NewFrame(repodir, rank)>>
    /\ op' = "prune"
    /\ arg' = [dirs |-> dirs, files |-> files]
    /\ ret' = [removed |-> {}, kept |-> {}]
    /\ UNCHANGED <<config, dirs, files, hist, echoed>>

\* dir.remove(): shutil.rmtree
RemoveTree(d, nodes) == nodes \ ({d} \cup Below(d, nodes))

\* one iteration of the loop of prune, or its end when the walk is over
PruneIter ==
    /\ op = "prune"
    /\ \E rank \in Ranks :
          LET r == GenNext(stack, "dirs", rank) IN
          IF r.item = <<>>
          THEN /\ op' = "pruned"
               /\ hist' = Append(hist, "prune")
               /\ stack' = <<>>
               /\ UNCHANGED <<dirs, files, ret>>
          ELSE LET dir == r.item[1] IN
               /\ stack' = r.stack
               /\ IF Len(listdir(dir, rank)) = 0
                  THEN /\ dirs' = RemoveTree(dir, dirs)
                       /\ files' = RemoveTree(dir, files)
                       /\ ret' = [ret EXCEPT !.removed = @ \cup {dir}]
                  ELSE /\ ret' = [ret EXCEPT !.kept = @ \cup {dir}]
                       /\ UNCHANGED <<dirs, files>>
               /\ UNCHANGED <<op, hist>>
    /\ UNCHANGED <<config, arg, echoed>>

NextRepo == Contents \/ PruneBegin \/ PruneIter

SpecRepo == InitRepo /\ [][NextRepo]_vars

----------------------------------------------------------------------------
(* Validation.                                                              *)

\* C3: _dotfile reports the first failing check in the order not below the
\* home directory, below the repository, target basename ignored, is a
\* directory, and returns Dotfile(name, _name_to_target(name)) exactly when
\* no check fails.
ValidateOrder ==
    op = "_dotfile" =>
       LET inHome == IsBelow(arg, homedir)
           inRepo == IsBelow(arg, repodir)
           ignored == basename(_name_to_target(arg)) \in ignore
       IN /\ ~inHome => ret.raised = "NotRootedInHome"
          /\ (inHome /\ inRepo) => ret.raised = "InRepository"
          /\ (inHome /\ ~inRepo /\ ignored) => ret.raised = "TargetIgnored"
          /\ (inHome /\ ~inRepo /\ ~ignored /\ arg \in dirs)
                => ret.raised = "IsDirectory"
          /\ (inHome /\ ~inRepo /\ ~ignored /\ arg \notin dirs)
                => ret = Return(Dotfile(arg, _name_to_target(arg)))

\* a directory outside the home directory whose target basename is ignored
ValidateOrderWitness ==
    /\ op = "_dotfile"
    /\ ~IsBelow(arg, homedir)
    /\ arg \in dirs
    /\ basename(_name_to_target(arg)) \in ignore
    /\ ret.raised = "NotRootedInHome"

\* C4 as stated: every path below the repository fails with InRepository.
InRepoAlwaysInRepository ==
    (op = "_dotfile" /\ IsBelow(arg, repodir)) => ret.raised = "InRepository"

\* C4 as amended: every path below the repository fails, with InRepository
\* when it is below the home directory and with NotRootedInHome when not.
InRepoAlwaysFails ==
    (op = "_dotfile" /\ IsBelow(arg, repodir)) =>
       ret.raised = IF IsBelow(arg, homedir) THEN "InRepository"
                    ELSE "NotRootedInHome"

InRepoAlwaysFailsWitness ==
    /\ op = "_dotfile"
    /\ IsBelow(arg, repodir)
    /\ ~IsBelow(arg, homedir)
    /\ ret.raised = "NotRootedInHome"

----------------------------------------------------------------------------
(* Bulk resolution.                                                         *)

Range(s) == {s[i] : i \in DOMAIN s}

\* the files a list of paths stands for: the listed files and the files
\* below a listed directory with no ignored name on the way down
Denoted(paths) ==
    {f \in files :
        \/ f \in Range(paths)
        \/ \E d \in Range(paths) :
              /\ d \in dirs
              /\ IsBelow(f, d)
              /\ \A k \in (Len(d) + 1)..Len(f) : f[k] \notin ignore}

\* C5: dotfiles expands every listed directory: each denoted file that
\* passes _dotfile is in the result, and no listed directory is handed to
\* _dotfile unexpanded.
EveryDirectoryExpanded ==
    op = "dotfiles" =>
       /\ \A f \in Denoted(arg) :
             IsOk(_dotfile(f)) => \E i \in DOMAIN ret : ret[i].name = f
       /\ \A i \in DOMAIN echoed :
             ~(echoed[i].value \in Range(arg) /\ echoed[i].value \in dirs)

\* C6: the result of dotfiles never holds two Dotfiles of the same name.
NoDuplicateNames ==
    op = "dotfiles" =>
       \A i, j \in DOMAIN ret : i # j => ret[i].name # ret[j].name

----------------------------------------------------------------------------
(* Enumeration.                                                             *)

\* C7: contents returns its Dotfiles in ascending order of name, whatever
\* the order of the walk.
ContentsSorted ==
    op = "contents" =>
       \A i \in 1..(Len(ret) - 1) : ~PathLess(ret[i + 1].name, ret[i].name)

\* three files or more, walked in an order that is not the order of names
ContentsSortedWitness ==
    /\ op = "contents"
    /\ Len(ret) >= 3
    /\ \E i \in 1..(Len(arg) - 1) :
          PathLess(_target_to_name(arg[i + 1]), _target_to_name(arg[i]))

\* the files below the repository with no ignored name on the way down
Tracked ==
    {f \in files :
        /\ IsBelow(f, repodir)
        /\ \A k \in (Len(repodir) + 1)..Len(f) : f[k] \notin ignore}

\* C8: contents returns exactly one Dotfile(_target_to_name(f), f) for each
\* file f below the repository with no ignored name on the way down, and
\* nothing else.
ContentsExact ==
    op = "contents" =>
       /\ Range(ret) = {Dotfile(_target_to_name(f), f) : f \in Tracked}
       /\ Len(ret) = Cardinality(Tracked)

\* a repository with a tracked file, a directory, and a file left out for
\* an ignored name
ContentsExactWitness ==
    /\ op = "contents"
    /\ Len(ret) >= 1
    /\ \E d \in dirs : IsBelow(d, repodir)
    /\ \E f \in files : IsBelow(f, repodir) /\ f \notin Tracked

----------------------------------------------------------------------------
(* Pruning.                                                                 *)

\* the directories below the repository with no ignored name on the way down
Walked(ds) ==
    {d \in ds :
        /\ IsBelow(d, repodir)
        /\ \A k \in (Len(repodir) + 1)..Len(d) : d[k] \notin ignore}

\* C9: when prune returns, no directory that is below the repository with
\* no ignored name on the way down is empty, and a second call of prune
\* removes nothing.
PruneConverges ==
    op = "pruned" =>
       /\ \A d \in Walked(dirs) : Children(d, Nodes) # {}
       /\ Len(hist) >= 2 => ret.removed = {}

\* an empty directory nested in an otherwise empty directory, both removed
\* by one call
PruneConvergesWitness ==
    /\ op = "pruned"
    /\ Len(hist) = 1
    /\ \E d, e \in ret.removed : IsBelow(e, d)

\* C10: while prune runs and when it has returned, the repository directory
\* exists, every file that existed still exists, every directory that is
\* ignored or below an ignored directory still exists, every directory that
\* had an entry when it was visited still exists, and every directory
\* removed was below the repository, not ignored, and held no file.
PruneFrame ==
    op \in {"prune", "pruned"} =>
       /\ repodir \in dirs
       /\ files = arg.files
       /\ (arg.dirs \ Walked(arg.dirs)) \subseteq dirs
       /\ ret.kept \subseteq dirs
       /\ arg.dirs \ dirs = ret.removed
       /\ \A d \in ret.removed :
             /\ d \in Walked(arg.dirs)
             /\ Below(d, arg.files) = {}

\* prune has removed a directory, kept a directory that has an entry, and
\* left an empty directory with an ignored name
PruneFrameWitness ==
    /\ op = "pruned"
    /\ ret.removed # {}
    /\ ret.kept # {}
    /\ \E d \in dirs :
          /\ IsBelow(d, repodir)
          /\ basename(d) \in ignore
          /\ Children(d, Nodes) = {}

====
